---- MODULE Spec2Model ----
(***************************************************************************)
(* The terminfo parameterized-string compiler of                           *)
(* src/terminfo/lang/parser.rs: Parser { slice, buffer }, its compilation  *)
(* step next_instruction (with parse_until and the conditional loop),      *)
(* the batch entry parse() and the lazy entry Iterator::next.              *)
(*                                                                         *)
(* A byte is a one-character string, the input a sequence of bytes.  Two   *)
(* compilers are created from the same input: "lazy" is only pulled,       *)
(* "batch" is first run through parse() and then pulled (drained).         *)
(***************************************************************************)
EXTENDS Integers, Sequences, FiniteSets

VARIABLES input, slice, buffer, yielded, last, parsed, log

vars == <<input, slice, buffer, yielded, last, parsed, log>>

Range(f) == {f[i] : i \in DOMAIN f}

Drop(sl, n) == SubSeq(sl, n + 1, Len(sl))

\* F applied to the value of v, which is computed once.
Bind(v, F(_)) == CHOOSE r \in { F(x) : x \in {v} } : TRUE

(***************************************************************************)
(* enum Op.  Every instruction has the same three fields so that any two   *)
(* can be compared: the name of the variant, its numeric payload and its   *)
(* byte payload.                                                           *)
(***************************************************************************)
MkOp(name, n, s) == [op |-> name, n |-> n, s |-> s]

NoOp == MkOp("NoOp", 0, <<>>)

PushUserArg(i) == MkOp("PushUserArg", i, <<>>)

Push(n) == MkOp("Push", n, <<>>)

PushChar(c) == MkOp("PushChar", 0, <<c>>)

BranchFalse(n) == MkOp("BranchFalse", n, <<>>)

Jump(n) == MkOp("Jump", n, <<>>)

PrintFormatted(directive) == MkOp("Print", 0, directive)

PrintSlice(bytes) == MkOp("PrintSlice", 0, bytes)

\* The selector bytes of the one-instruction escapes, lines 168-182.
SimpleSelectors ==
  {"i", "l", "+", "-", "*", "/", "m", "&", "^", "|", "=", "<", ">", "~", "!"}

SimpleOp(c) ==
  CASE c = "i" -> MkOp("IncrementArgs", 0, <<>>)
    [] c = "l" -> MkOp("StrLen", 0, <<>>)
    [] c = "+" -> MkOp("Add", 0, <<>>)
    [] c = "-" -> MkOp("Sub", 0, <<>>)
    [] c = "*" -> MkOp("Mul", 0, <<>>)
    [] c = "/" -> MkOp("Div", 0, <<>>)
    [] c = "m" -> MkOp("Mod", 0, <<>>)
    [] c = "&" -> MkOp("BitAnd", 0, <<>>)
    [] c = "^" -> MkOp("BitXor", 0, <<>>)
    [] c = "|" -> MkOp("BitOr", 0, <<>>)
    [] c = "=" -> MkOp("Equal", 0, <<>>)
    [] c = "<" -> MkOp("Less", 0, <<>>)
    [] c = ">" -> MkOp("Greater", 0, <<>>)
    [] c = "~" -> MkOp("Invert", 0, <<>>)
    [] c = "!" -> MkOp("Not", 0, <<>>)

(***************************************************************************)
(* Helpers of the escapes' payloads.                                       *)
(***************************************************************************)
Digits == {"0", "1", "2", "3", "4", "5", "6", "7", "8", "9"}

DigitVal(c) ==
  CASE c = "0" -> 0 [] c = "1" -> 1 [] c = "2" -> 2 [] c = "3" -> 3
    [] c = "4" -> 4 [] c = "5" -> 5 [] c = "6" -> 6 [] c = "7" -> 7
    [] c = "8" -> 8 [] c = "9" -> 9

\* sl.iter().skip(skip).take_while(|c| c is not in stop).count()
RECURSIVE take_while_count(_, _, _)
take_while_count(sl, skip, stop) ==
  IF skip >= Len(sl) \/ sl[skip + 1] \in stop
  THEN 0
  ELSE 1 + take_while_count(sl, skip + 1, stop)

RECURSIVE Decimal(_)
Decimal(ds) ==
  IF ds = <<>> THEN 0
  ELSE Decimal(SubSeq(ds, 1, Len(ds) - 1)) * 10 + DigitVal(ds[Len(ds)])

\* isize::from_str_radix(text, 10): an optional sign and at least one digit.
\* (The inputs of the model are far shorter than the 19 digits that overflow.)
IntDigits(text) ==
  IF text # <<>> /\ text[1] \in {"+", "-"} THEN Drop(text, 1) ELSE text

ValidInt(text) ==
  /\ IntDigits(text) # <<>>
  /\ \A i \in DOMAIN IntDigits(text) : IntDigits(text)[i] \in Digits

IntVal(text) ==
  IF text[1] = "-" THEN 0 - Decimal(IntDigits(text)) ELSE Decimal(IntDigits(text))

\* char::from_str(text): exactly one character (the bytes of the model are ASCII).
ValidChar(text) == Len(text) = 1

\* The conversion characters the directive's length is scanned to, line 227.
ConvBytes == {"x", "X", "c", "d", "o", "s"}

\* PrintfArgs::parse, the format-directive collaborator: flags, width and
\* precision up to a conversion character.
PrintfFlagBytes == Digits \cup {":", "#", " ", "."}

PrintfLen(bytes) == take_while_count(bytes, 0, ConvBytes)

PrintfOk(bytes) ==
  /\ PrintfLen(bytes) < Len(bytes)
  /\ \A i \in 1..PrintfLen(bytes) : bytes[i] \in PrintfFlagBytes

PrintfArgs(bytes) == SubSeq(bytes, 1, PrintfLen(bytes) + 1)

(***************************************************************************)
(* The state one compilation step works on: the parser's two fields, how   *)
(* the call ended (res: "ok", "err" with the ErrorKind in err, or "panic"  *)
(* for an out-of-range index or slice), and a record of what the           *)
(* conditional compiler did to the queue: holes are the queue indices      *)
(* where a NoOp placeholder was pushed, patches the overwrites buffer[i] = *)
(* op in order, br and jm the places each branch and each jump has to      *)
(* lead to (queue indices, the first slot of the queue being 0), conds the *)
(* number of conditionals compiled to their end.                           *)
(***************************************************************************)
Start(sl, buf) ==
  [slice |-> sl, buffer |-> buf, res |-> "ok", err |-> "",
   holes |-> {}, patches |-> <<>>, br |-> {}, jm |-> {}, conds |-> 0]

Fail(s, kind) == [s EXCEPT !.res = "err", !.err = kind]

Panic(s) == [s EXCEPT !.res = "panic"]

add_instruction(s, op) == [s EXCEPT !.buffer = Append(@, op)]

\* self.slice = &self.slice[read..]: out of range when read exceeds the length.
Advance(s, read) ==
  IF read > Len(s.slice) THEN Panic(s) ELSE [s EXCEPT !.slice = Drop(@, read)]

\* self.add_instruction(Op::NoOp) of a placeholder, at queue index Len(buffer).
Placeholder(s) ==
  [s EXCEPT !.buffer = Append(@, NoOp), !.holes = @ \cup {Len(s.buffer)}]

\* self.buffer[idx] = op
Overwrite(s, idx, op) ==
  [s EXCEPT !.buffer[idx + 1] = op,
            !.patches = Append(@, [idx |-> idx, old |-> s.buffer[idx + 1], new |-> op])]

\* An offset counted from the placeholder itself instead of the slot after it.
BranchOffsetFromSelf(len, branch_idx) == len - branch_idx

\* buffer.len() - 1 - branch_idx, lines 206 and 213
BranchOffset(len, branch_idx) == len - 1 - branch_idx

\* A jump that stops one instruction short of the end of the conditional.
JumpOffsetShort(len, j) == len - j - 2

\* A jump given the index of its target instead of the distance to it.
JumpOffsetAbsolute(len, j) == len

\* buffer.len() - j - 1, line 217
JumpOffset(len, j) == len - j - 1

\* A compiler that forgets the pending jumps.
PatchJumpsForgotten(s, end_jumps) == s

\* for j in end_jumps { self.buffer[j] = Op::Jump(..) }
RECURSIVE PatchJumps(_, _)
PatchJumps(s, end_jumps) ==
  IF end_jumps = <<>> THEN s
  ELSE Bind([Overwrite(s, Head(end_jumps),
                       Jump(JumpOffset(Len(s.buffer), Head(end_jumps))))
               EXCEPT !.jm = @ \cup {[at |-> Head(end_jumps), target |-> Len(s.buffer)]}],
            LAMBDA s1 : PatchJumps(s1, Tail(end_jumps)))

RECURSIVE next_instruction(_), parse_until_loop(_, _), cond_loop(_, _)

\* parse_until, lines 78-104.  Lines 79-85 index slice[0], and slice[1] when
\* slice[0] is the marker, before any length check.
parse_until(s, stop) ==
  IF Len(s.slice) = 0 THEN Panic(s)
  ELSE IF s.slice[1] = "%" /\ stop # <<>> /\ Len(s.slice) = 1 THEN Panic(s)
  ELSE parse_until_loop(s, stop)

parse_until_loop(s, stop) ==
  IF Len(s.slice) >= 2
  THEN IF s.slice[1] = "%" /\ s.slice[2] \in Range(stop)
       THEN s
       ELSE Bind(next_instruction(s),
                 LAMBDA s1 : IF s1.res # "ok" THEN s1 ELSE parse_until_loop(s1, stop))
  ELSE Fail(s, "UnexpectedEof")

\* The while loop of the conditional, lines 189-215; the result carries
\* end_jumps along with the state.
cond_loop(s, end_jumps) ==
  IF ~(Len(s.slice) > 1 /\ s.slice[2] = "t")
  THEN [s |-> s, end_jumps |-> end_jumps]
  ELSE
    LET branch_idx == Len(s.buffer)
        Else(s3) ==
          LET j == Len(s3.buffer)
              s4 == Placeholder(s3)
              s5 == [Overwrite(s4, branch_idx,
                               BranchFalse(BranchOffset(Len(s3.buffer) + 1, branch_idx)))
                       EXCEPT !.br = @ \cup {[at |-> branch_idx, target |-> j + 1]},
                              !.slice = Drop(@, 2)]
          IN Bind(parse_until(s5, <<";", "t">>),
                  LAMBDA s7 : IF s7.res # "ok"
                              THEN [s |-> s7, end_jumps |-> Append(end_jumps, j)]
                              ELSE cond_loop(s7, Append(end_jumps, j)))
        EndIf(s3) ==
          cond_loop(
            [Overwrite(s3, branch_idx,
                       BranchFalse(BranchOffset(Len(s3.buffer), branch_idx)))
               EXCEPT !.br = @ \cup {[at |-> branch_idx, target |-> Len(s3.buffer)]}],
            end_jumps)
    IN Bind(parse_until(Placeholder([s EXCEPT !.slice = Drop(@, 2)]), <<"e", ";">>),
            LAMBDA s3 :
              IF s3.res # "ok" THEN [s |-> s3, end_jumps |-> end_jumps]
              ELSE IF Len(s3.slice) < 2
              THEN [s |-> Fail(s3, "UnexpectedEof"), end_jumps |-> end_jumps]
              ELSE IF s3.slice[2] = "e" THEN Else(s3) ELSE EndIf(s3))

\* A compiler that leaves the closing marker of a conditional unread.
CondReadNothing == 2 - 2

\* read = 2, line 219: the closing marker and its selector
CondRead == 2

\* The b'?' arm, lines 183-220, and the slice update of line 233 after it.
Conditional(s) ==
  Bind(parse_until([s EXCEPT !.slice = Drop(@, 2)], <<"t">>),
       LAMBDA s1 :
         IF s1.res # "ok" THEN s1
         ELSE Bind(cond_loop(s1, <<>>),
                   LAMBDA r : IF r.s.res # "ok" THEN r.s
                              ELSE Advance([PatchJumps(r.s, r.end_jumps)
                                              EXCEPT !.conds = @ + 1], CondRead)))

\* The b'p' arm, lines 130-138.
ArgumentRef(s) ==
  IF Len(s.slice) >= 3 /\ s.slice[3] \in (Digits \ {"0"})
  THEN Advance(add_instruction(s, PushUserArg(DigitVal(s.slice[3]) - 1)), 3)
  ELSE Fail(s, "InvalidArgumentIdentifier")

\* A literal read without its closing delimiter.
LiteralReadOpen(len) == 2 + (len - 2)

\* read += numlen - 1 and read += charlen - 1, lines 152 and 165 (read starts at 2)
LiteralRead(len) == 2 + (len - 1)

\* The b'{' arm, lines 139-153.
NumberLiteral(s) ==
  LET numlen == take_while_count(s.slice, 2, {"}"}) + 2
      text == SubSeq(s.slice, 3, numlen)
  IN IF ~ValidInt(text) THEN Fail(s, "InvalidNumber")
     ELSE Advance(add_instruction(s, Push(IntVal(text))), LiteralRead(numlen))

\* The b'\'' arm, lines 154-166.
CharLiteral(s) ==
  LET charlen == take_while_count(s.slice, 2, {"'"}) + 2
      text == SubSeq(s.slice, 3, charlen)
  IN IF ~ValidChar(text) THEN Fail(s, "InvalidChar")
     ELSE Advance(add_instruction(s, PushChar(text[1])), LiteralRead(charlen))

\* The default arm, lines 221-230.
Directive(s) ==
  IF ~PrintfOk(Drop(s.slice, 1)) THEN Fail(s, "Printf")
  ELSE Advance(add_instruction(s, PrintFormatted(PrintfArgs(Drop(s.slice, 1)))),
               2 + take_while_count(s.slice, 1, ConvBytes))

\* Literal text, lines 113-118.
LiteralText(s) ==
  LET pos == take_while_count(s.slice, 0, {"%"}) IN
  [add_instruction(s, PrintSlice(SubSeq(s.slice, 1, pos)))
     EXCEPT !.slice = Drop(@, pos)]

\* next_instruction, lines 107-235.
next_instruction(s) ==
  IF Len(s.slice) = 0 THEN s
  ELSE IF s.slice[1] # "%" THEN LiteralText(s)
  ELSE IF Len(s.slice) = 1 THEN Fail(s, "UnexpectedEof")
  ELSE LET c == s.slice[2] IN
       CASE c = "%" -> Advance(add_instruction(s, PrintSlice(<<"%">>)), 2)
         [] c = "p" -> ArgumentRef(s)
         [] c = "{" -> NumberLiteral(s)
         [] c = "'" -> CharLiteral(s)
         [] c \in SimpleSelectors -> Advance(add_instruction(s, SimpleOp(c)), 2)
         [] c = "?" -> Conditional(s)
         [] OTHER -> Directive(s)

\* The match on the result of next_instruction in Iterator::next, lines 244-250.
AfterStep(s) ==
  IF s.res = "ok"
  THEN IF s.buffer # <<>>
       THEN [kind |-> "item", item |-> Head(s.buffer), stepped |-> TRUE,
             s |-> [s EXCEPT !.buffer = Tail(@)]]
       ELSE [kind |-> "end", item |-> NoOp, stepped |-> TRUE, s |-> s]
  ELSE [kind |-> s.res, item |-> NoOp, stepped |-> TRUE, s |-> s]

\* A compiler that runs a compilation step on every pull, before it pops.
IterNextEager(sl, buf) ==
  Bind(next_instruction(Start(sl, buf)), LAMBDA s : AfterStep(s))

\* Iterator::next, lines 241-252: what the pull returns (kind "item" with the
\* instruction, "end" for None, "err", or "panic"), whether it ran a
\* compilation step, and the state the parser is left in.
IterNext(sl, buf) ==
  IF buf # <<>>
  THEN [kind |-> "item", item |-> Head(buf), stepped |-> FALSE,
        s |-> Start(sl, Tail(buf))]
  ELSE Bind(next_instruction(Start(sl, buf)), LAMBDA s : AfterStep(s))

\* while self.slice.len() > 0, line 68
ParseGuard(s) == Len(s.slice) > 0

\* parse(), lines 67-72: n counts the calls of next_instruction made so far.
\* The loop is followed for at most cap iterations; a loop still running
\* then is reported as res = "running".
RECURSIVE parse(_, _, _)
parse(s, n, cap) ==
  IF ~ParseGuard(s) THEN [s |-> s, steps |-> n]
  ELSE IF n >= cap THEN [s |-> [s EXCEPT !.res = "running"], steps |-> n]
  ELSE Bind(next_instruction(s),
            LAMBDA s1 : IF s1.res # "ok" THEN [s |-> s1, steps |-> n + 1]
                        ELSE parse(s1, n + 1, cap))

(***************************************************************************)
(* The inputs.  Well-formed inputs are generated from the grammar of the   *)
(* capability strings, token by token: a body is a sequence of items, an   *)
(* item is an atom or a conditional                                        *)
(*   %? body %t body { %e body %t body } [ %e body ] %;                    *)
(***************************************************************************)
MaxTokens == 8

MaxFlat == 2

MaxTrunc == 6

Atoms == { <<"%", "p", "1">>, <<"a">> }

\* Level n of the grammar from the levels below it.
GrammarLevel(T, n) ==
  LET Splits == {p \in (0..n) \X (0..n) \X (1..n) : p[1] + p[2] + p[3] = n - 2}
      Segs == UNION { { x \o <<"%", "t">> \o y \o r :
                          x \in T.B[p[1]], y \in T.B[p[2]], r \in T.R[p[3]] }
                      : p \in Splits }
      Rn == (IF n = 1 THEN {<<"%", ";">>} ELSE {})
            \cup (IF n >= 2 THEN { <<"%", "e">> \o x \o <<"%", ";">> : x \in T.B[n - 2] }
                  ELSE {})
            \cup { <<"%", "e">> \o sg : sg \in Segs }
      Cn == { <<"%", "?">> \o sg : sg \in Segs }
      Bn == { a \o b : a \in Atoms, b \in T.B[n - 1] }
            \cup { c \o <<>> : c \in Cn }
            \cup UNION { { c \o b : c \in T.C[k], b \in T.B[n - k] } : k \in 1..(n - 1) }
  IN [B |-> [k \in 0..n |-> IF k < n THEN T.B[k] ELSE Bn],
      C |-> [k \in 0..n |-> IF k < n THEN T.C[k] ELSE Cn],
      R |-> [k \in 0..n |-> IF k < n THEN T.R[k] ELSE Rn]]

\* Grammar(n).B[k], .C[k], .R[k]: the bodies, the conditionals, and the tails
\* of a conditional after a then-body, of exactly k tokens, for k <= n.
RECURSIVE Grammar(_)
Grammar(n) ==
  IF n = 0
  THEN [B |-> [k \in {0} |-> {<<>>}], C |-> [k \in {0} |-> {}], R |-> [k \in {0} |-> {}]]
  ELSE Bind(Grammar(n - 1), LAMBDA T : GrammarLevel(T, n))

Bodies == Bind(Grammar(MaxTokens), LAMBDA T : UNION { T.B[k] : k \in 0..MaxTokens })

Conditionals(n) == Bind(Grammar(n), LAMBDA T : UNION { T.C[k] : k \in 0..n })

\* One of every kind of escape, and literal text.
GoodTokens ==
  { <<"a", "b">>, <<"%", "%">>, <<"%", "p", "9">>, <<"%", "{", "1", "2", "}">>,
    <<"%", "{", "-", "3", "}">>, <<"%", "'", "A", "'">>, <<"%", "i">>, <<"%", "l">>,
    <<"%", "+">>, <<"%", "!">>, <<"%", "d">>, <<"%", "2", "d">> }

\* Escapes the compiler rejects.
BadTokens ==
  { <<"%", "p", "0">>, <<"%", "p", "x">>, <<"%", "{", "}">>, <<"%", "{", "x", "}">>,
    <<"%", "'", "'">>, <<"%", "'", "A", "B", "'">>, <<"%", "q">> }

RECURSIVE Flat(_, _)
Flat(tokens, n) ==
  IF n = 0 THEN {<<>>}
  ELSE Flat(tokens, n - 1) \cup { f \o t : f \in Flat(tokens, n - 1), t \in tokens }

Prefixes(seq) == { SubSeq(seq, 1, k) : k \in 1..(Len(seq) - 1) }

\* The two conditionals the specification spells out.
ExampleIf == <<"%", "?", "%", "{", "1", "}", "%", "t", "%", "{", "2", "}", "%", ";">>

ExampleIfElse ==
  <<"%", "?", "%", "{", "1", "}", "%", "t", "%", "{", "2", "}",
    "%", "e", "%", "{", "3", "}", "%", ";">>

WFInputs == Bodies \cup Flat(GoodTokens, MaxFlat) \cup {ExampleIf, ExampleIfElse}

\* Conditionals cut short: after any of their escapes, or with a lone
\* trailing marker.
Truncated ==
  { p \in UNION { Prefixes(c) : c \in Conditionals(MaxTrunc) } :
      Len(p) >= 2 /\ SubSeq(p, Len(p) - 1, Len(p)) # <<"%", "p">> }

\* Inputs that end inside an escape.
Unterminated ==
  UNION { { f \o p : p \in Prefixes(t) } :
            f \in Flat(GoodTokens, 1), t \in GoodTokens \cup BadTokens }

\* Inputs that end in an integer literal without its closing brace, and in a
\* character literal without its closing quote.
OpenNumbers ==
  { f \o p : f \in Flat(GoodTokens, 1),
             p \in { q \in UNION { Prefixes(t) : t \in GoodTokens \cup BadTokens } :
                       Len(q) >= 2 /\ q[2] = "{" } }

OpenChars ==
  { f \o p : f \in Flat(GoodTokens, 1),
             p \in { q \in UNION { Prefixes(t) : t \in GoodTokens \cup BadTokens } :
                       Len(q) >= 2 /\ q[2] = "'" } }

Inputs ==
  WFInputs \cup Flat(GoodTokens \cup BadTokens, MaxFlat) \cup Truncated \cup Unterminated

(***************************************************************************)
(* The state machine.                                                      *)
(***************************************************************************)
Compilers == {"lazy", "batch"}

\* The last call of Iterator::next: how it ended, whether it ran a compilation
\* step, and the slice, the queue and the number of instructions handed out
\* as they were before it.
NoCall ==
  [kind |-> "none", err |-> "", stepped |-> FALSE, slice0 |-> <<>>, queue0 |-> <<>>,
   out0 |-> 0]

\* The first pull that did not yield an instruction: how it ended, all the
\* instructions produced until then (handed out and queued), how many of
\* them had been handed out, and whether its step began at a conditional.
NoStop == [kind |-> "none", err |-> "", all |-> <<>>, out |-> 0, cond |-> FALSE]

NoLog == [holes |-> {}, patches |-> <<>>, br |-> {}, jm |-> {}, conds |-> 0,
          failed |-> FALSE, first |-> NoStop]

StartsCond(sl) == Len(sl) >= 2 /\ sl[1] = "%" /\ sl[2] = "?"

\* Parser::new, lines 60-65, for both compilers.
Init ==
  /\ input \in Inputs
  /\ slice = [i \in Compilers |-> input]
  /\ buffer = [i \in Compilers |-> <<>>]
  /\ yielded = [i \in Compilers |-> <<>>]
  /\ last = [i \in Compilers |-> NoCall]
  /\ parsed = [kind |-> "none", err |-> "", steps |-> 0, queue |-> <<>>]
  /\ log = [i \in Compilers |-> NoLog]

\* What a step did to the queue, with the queue indices counted from the
\* first instruction the compiler ever produced: base instructions had
\* been handed out before the step.
Logged(old, s, base) ==
  [old EXCEPT
     !.holes = @ \cup { h + base : h \in s.holes },
     !.patches = @ \o [k \in DOMAIN s.patches |->
                         [s.patches[k] EXCEPT !.idx = @ + base]],
     !.br = @ \cup { [at |-> b.at + base, target |-> b.target + base] : b \in s.br },
     !.jm = @ \cup { [at |-> b.at + base, target |-> b.target + base] : b \in s.jm },
     !.conds = @ + s.conds,
     !.failed = @ \/ s.res = "err"]

\* A call of Iterator::next on compiler i.  A panic ends the use of the
\* compiler: its fields are not looked at again.
Pull(i) ==
  /\ last[i].kind # "panic"
  /\ i = "batch" => parsed.kind \in {"ok", "err"}
  /\ LET r == IterNext(slice[i], buffer[i])
         now == [kind |-> r.kind, err |-> r.s.err, stepped |-> r.stepped,
                 slice0 |-> slice[i], queue0 |-> buffer[i], out0 |-> Len(yielded[i])]
     IN /\ last' = [last EXCEPT ![i] = now]
        /\ IF r.kind = "panic"
           THEN /\ UNCHANGED <<slice, buffer, yielded>>
                /\ log' = [log EXCEPT ![i].first =
                             IF @.kind = "none"
                             THEN [kind |-> "panic", err |-> "", all |-> <<>>,
                                   out |-> Len(yielded[i]),
                                   cond |-> StartsCond(slice[i])]
                             ELSE @]
           ELSE /\ slice' = [slice EXCEPT ![i] = r.s.slice]
                /\ buffer' = [buffer EXCEPT ![i] = r.s.buffer]
                /\ yielded' = [yielded EXCEPT ![i] =
                                 IF r.kind = "item" THEN Append(@, r.item) ELSE @]
                /\ log' = [log EXCEPT ![i] =
                             [Logged(@, r.s, Len(yielded[i])) EXCEPT !.first =
                                IF @.kind = "none" /\ r.kind # "item"
                                THEN [kind |-> r.kind, err |-> r.s.err,
                                      all |-> yielded[i] \o r.s.buffer,
                                      out |-> Len(yielded[i]),
                                      cond |-> StartsCond(slice[i])]
                                ELSE @]]
  /\ UNCHANGED <<input, parsed>>

\* A call of parse() on the batch compiler, made once, before any pull of it
\* (and, to keep the two runs apart, after the lazy compiler has stopped
\* yielding instructions).
Parse ==
  /\ parsed.kind = "none"
  /\ log["lazy"].first.kind # "none"
  /\ LET r == parse(Start(slice["batch"], buffer["batch"]), 0, Len(input) + 1)
     IN /\ parsed' = [kind |-> r.s.res, err |-> r.s.err, steps |-> r.steps,
                      queue |-> IF r.s.res = "panic" THEN <<>> ELSE r.s.buffer]
        /\ IF r.s.res = "panic"
           THEN UNCHANGED <<slice, buffer, log>>
           ELSE /\ slice' = [slice EXCEPT !["batch"] = r.s.slice]
                /\ buffer' = [buffer EXCEPT !["batch"] = r.s.buffer]
                /\ log' = [log EXCEPT !["batch"] = Logged(@, r.s, 0)]
  /\ UNCHANGED <<input, yielded, last>>

Next == (\E i \in Compilers : Pull(i)) \/ Parse

Spec == Init /\ [][Next]_vars

(***************************************************************************)
(* Views of the state used by the properties.                              *)
(***************************************************************************)
\* Every instruction compiler i has produced, in the order of production:
\* those handed out, then those queued.  The instruction produced k-th is at
\* queue index k - 1 counted from the first instruction ever produced.
All(i) == yielded[i] \o buffer[i]

WellFormed == input \in WFInputs

\* No call on compiler i has failed: returned an error, or panicked.
Clean(i) ==
  /\ ~log[i].failed
  /\ last[i].kind \notin {"err", "panic"}
  /\ i = "batch" => parsed.kind \in {"none", "ok"}

\* The number of places k where bytes[k] is the marker and bytes[k + 1] is c.
\* (In the inputs that hold a conditional every marker starts an escape.)
Marks(bytes, c) ==
  Cardinality({ k \in 1..(Len(bytes) - 1) : bytes[k] = "%" /\ bytes[k + 1] = c })

CountOps(ops, name) == Cardinality({ k \in DOMAIN ops : ops[k].op = name })

\* The input bytes compiler i has consumed in its last call.
Consumed(i) == SubSeq(last[i].slice0, 1, Len(last[i].slice0) - Len(slice[i]))

(***************************************************************************)
(* The conditionals of an input read off its text, without compiling it.   *)
(* The input is cut into its escapes and runs of literal text; "x" stands  *)
(* for one that compiles to one instruction, "?", "t", "e", ";" for the    *)
(* four escapes of a conditional.                                          *)
(***************************************************************************)
EscapeLen(bytes, p) ==
  IF bytes[p] # "%" THEN take_while_count(bytes, p - 1, {"%"})
  ELSE IF p = Len(bytes) THEN 1
  ELSE CASE bytes[p + 1] = "p" -> 3
         [] bytes[p + 1] = "{" -> take_while_count(bytes, p + 1, {"}"}) + 3
         [] bytes[p + 1] = "'" -> take_while_count(bytes, p + 1, {"'"}) + 3
         [] bytes[p + 1] \in SimpleSelectors \cup {"%", "?", "t", "e", ";"} -> 2
         [] OTHER -> take_while_count(bytes, p, ConvBytes) + 2

EscapeKind(bytes, p) ==
  IF bytes[p] = "%" /\ p < Len(bytes) /\ bytes[p + 1] \in {"?", "t", "e", ";"}
  THEN bytes[p + 1]
  ELSE "x"

RECURSIVE Escapes(_, _)
Escapes(bytes, p) ==
  IF p > Len(bytes) THEN <<>>
  ELSE <<EscapeKind(bytes, p)>> \o Escapes(bytes, p + EscapeLen(bytes, p))

\* The queue index of the instruction escape k compiles to; for an escape
\* that compiles to none, of the first instruction after it.
Slot(toks, k) == Cardinality({ m \in 1..(k - 1) : toks[m] \in {"t", "e", "x"} })

\* The first escape from k on, outside the conditionals that open from k
\* on, that is one of stops (0 when there is none).
RECURSIVE Closing(_, _, _, _)
Closing(toks, k, depth, stops) ==
  IF k > Len(toks) THEN 0
  ELSE IF toks[k] = "?" THEN Closing(toks, k + 1, depth + 1, stops)
  ELSE IF depth = 0 /\ toks[k] \in stops THEN k
  ELSE IF toks[k] = ";" THEN Closing(toks, k + 1, depth - 1, stops)
  ELSE Closing(toks, k + 1, depth, stops)

\* Where the branch of the %t at k has to lead: past the jump of the %e that
\* closes its body, or to what follows the %; that closes it.
BranchTarget(toks, k) ==
  Bind(Closing(toks, k + 1, 0, {"e", ";"}),
       LAMBDA c : IF toks[c] = "e" THEN Slot(toks, c) + 1 ELSE Slot(toks, c))

\* Where the jump of the %e at k has to lead: to what follows the %; of its
\* conditional.
JumpTarget(toks, k) == Slot(toks, Closing(toks, k + 1, 0, {";"}))

(***************************************************************************)
(* C1: the placeholder pushed after each %t, at queue index b, ends up as  *)
(* branch-if-false(n) with b + n + 1 the index of the first instruction    *)
(* after that then-body: the one right after the jump placeholder when %e  *)
(* closes the body, the first one after the whole conditional when %;      *)
(* closes it.  The two conditionals the specification spells out compile   *)
(* to [push 1, branch-if-false 1, push 2] and to [push 1, branch-if-false  *)
(* 2, push 2, jump 1, push 3].                                             *)
(***************************************************************************)
C1_BranchTargets ==
  /\ \A i \in Compilers : \A b \in log[i].br :
       /\ b.at < b.target /\ b.target <= Len(All(i))
       /\ All(i)[b.at + 1] = BranchFalse(b.target - b.at - 1)
  /\ WellFormed =>
       Bind(Escapes(input, 1),
            LAMBDA toks :
              \A i \in Compilers : \A k \in DOMAIN toks :
                (toks[k] = "t" /\ Slot(toks, k) < Len(All(i)))
                  => All(i)[Slot(toks, k) + 1]
                       = BranchFalse(BranchTarget(toks, k) - Slot(toks, k) - 1))
  /\ (input = ExampleIf /\ last["lazy"].kind = "end")
       => yielded["lazy"] = <<Push(1), BranchFalse(1), Push(2)>>
  /\ (input = ExampleIfElse /\ last["lazy"].kind = "end")
       => /\ Len(yielded["lazy"]) = 5
          /\ yielded["lazy"][2] = BranchFalse(2)

\* A chain with an else-if and a nested conditional has been compiled and
\* drained: three branches with three different offsets.
C1_Witness ==
  /\ WellFormed
  /\ last["lazy"].kind = "end"
  /\ Cardinality(log["lazy"].br) >= 3
  /\ Cardinality({ b.target - b.at : b \in log["lazy"].br }) >= 3
  /\ log["lazy"].conds >= 2

(***************************************************************************)
(* C2: every pending-jump placeholder, at queue index j, ends up as        *)
(* jump(n) with j + n + 1 the queue length when the closing %; is reached, *)
(* the first instruction after the whole conditional: past every later     *)
(* segment of the conditional.  In the conditional with an else of the     *)
(* specification the jump is jump(1).                                      *)
(***************************************************************************)
C2_JumpTargets ==
  /\ \A i \in Compilers : \A j \in log[i].jm :
       /\ j.at < j.target /\ j.target <= Len(All(i))
       /\ All(i)[j.at + 1] = Jump(j.target - j.at - 1)
       \* no branch of the run leads past a jump to a place before its target
       /\ \A b \in log[i].br : b.at > j.at => (b.target <= j.target \/ b.at >= j.target)
  /\ WellFormed =>
       Bind(Escapes(input, 1),
            LAMBDA toks :
              \A i \in Compilers : \A k \in DOMAIN toks :
                (toks[k] = "e" /\ Slot(toks, k) < Len(All(i)))
                  => All(i)[Slot(toks, k) + 1]
                       = Jump(JumpTarget(toks, k) - Slot(toks, k) - 1))
  /\ (input = ExampleIfElse /\ last["lazy"].kind = "end")
       => yielded["lazy"] = <<Push(1), BranchFalse(2), Push(2), Jump(1), Push(3)>>

\* An else-if chain with a final else has been compiled and drained: two
\* jumps of the same conditional, with different offsets and one target.
C2_Witness ==
  /\ WellFormed
  /\ last["lazy"].kind = "end"
  /\ \E j1, j2 \in log["lazy"].jm : j1.at < j2.at /\ j1.target = j2.target
  /\ log["lazy"].conds = 1

(***************************************************************************)
(* C3: an input that begins a conditional and ends before its closing %;   *)
(* (cut after %?, in the condition, after %t, in a then-body, after %e, in *)
(* an else-body, or with a lone trailing %) makes the compilation return   *)
(* the error UnexpectedEof, and nothing else: no abort, no success.        *)
(***************************************************************************)
C3_TruncatedIsUnexpectedEof ==
  input \in Truncated =>
    /\ log["lazy"].first.kind # "none"
         => /\ log["lazy"].first.kind = "err"
            /\ log["lazy"].first.err = "UnexpectedEof"
            /\ log["lazy"].first.out = 0
    /\ parsed.kind # "none"
         => parsed.kind = "err" /\ parsed.err = "UnexpectedEof"

(***************************************************************************)
(* C4: an input that ends in an integer literal without its closing brace  *)
(* fails with InvalidNumber, one that ends in a character literal without  *)
(* its closing quote fails with InvalidChar; no push-literal-value         *)
(* instruction is produced for the literal.                                *)
(***************************************************************************)
C4_UnterminatedLiteralIsError ==
  /\ (input \in OpenNumbers /\ log["lazy"].first.kind # "none")
       => /\ log["lazy"].first.kind = "err"
          /\ log["lazy"].first.err = "InvalidNumber"
  /\ (input \in OpenChars /\ log["lazy"].first.kind # "none")
       => /\ log["lazy"].first.kind = "err"
          /\ log["lazy"].first.err = "InvalidChar"

(***************************************************************************)
(* C5: on a well-formed input no call fails, the cursor only moves         *)
(* forward through the input, and the bytes consumed so far are exactly    *)
(* the bytes of the escapes and literal spans compiled so far (with the    *)
(* %? and %; of every conditional, which stand for no instruction); when   *)
(* the sequence has been produced in full they add up to the input length. *)
(***************************************************************************)
RECURSIVE DecLen(_)
DecLen(n) ==
  IF n < 0 THEN 1 + DecLen(0 - n) ELSE IF n < 10 THEN 1 ELSE 1 + DecLen(n \div 10)

\* The bytes of the escape or literal span an instruction stands for.
SpanOf(op) ==
  CASE op.op = "PrintSlice" -> IF op.s = <<"%">> THEN 2 ELSE Len(op.s)
    [] op.op = "PushUserArg" -> 3
    [] op.op = "Push" -> 3 + DecLen(op.n)
    [] op.op = "PushChar" -> 4
    [] op.op = "Print" -> 1 + Len(op.s)
    [] OTHER -> 2

RECURSIVE SumSpans(_)
SumSpans(ops) == IF ops = <<>> THEN 0 ELSE SpanOf(Head(ops)) + SumSpans(Tail(ops))

C5_ConsumesExactlyTheInput ==
  WellFormed =>
    \A i \in Compilers :
      /\ Clean(i)
      /\ slice[i] = Drop(input, Len(input) - Len(slice[i]))
      /\ last[i].kind # "none" => Len(slice[i]) <= Len(last[i].slice0)
      /\ Len(input) - Len(slice[i]) = SumSpans(All(i)) + 4 * log[i].conds
      /\ last[i].kind = "end"
           => slice[i] = <<>> /\ SumSpans(yielded[i]) + 4 * log[i].conds = Len(input)

\* A well-formed input with literals of several bytes has been drained, and
\* so has one with two conditionals.
C5_Witness ==
  /\ WellFormed
  /\ last["lazy"].kind = "end"
  /\ log["lazy"].conds >= 2
  /\ CountOps(yielded["lazy"], "PushUserArg") >= 1
  /\ CountOps(yielded["lazy"], "PrintSlice") >= 1

(***************************************************************************)
(* C6: a pull with a non-empty queue returns the front of the queue        *)
(* without running a compilation step or moving the cursor; a pull with an *)
(* empty queue runs one compilation step and, when it returns an           *)
(* instruction, returns the first one the step produced and keeps the rest *)
(* queued; a pull signals end-of-sequence if and only if the queue is      *)
(* empty and the input exhausted.                                          *)
(***************************************************************************)
C6_PullProtocol ==
  \A i \in Compilers :
    last[i].kind \in {"item", "end", "err"} =>
      /\ last[i].queue0 # <<>> =>
           /\ last[i].kind = "item"
           /\ ~last[i].stepped
           /\ yielded[i] = Append(SubSeq(yielded[i], 1, last[i].out0), Head(last[i].queue0))
           /\ buffer[i] = Tail(last[i].queue0)
           /\ slice[i] = last[i].slice0
      /\ last[i].queue0 = <<>> =>
           /\ last[i].stepped
           /\ last[i].kind = "item" =>
                /\ Len(yielded[i]) = last[i].out0 + 1
                /\ Len(slice[i]) < Len(last[i].slice0)
           /\ last[i].kind # "item" => Len(yielded[i]) = last[i].out0
      /\ last[i].kind = "end" <=> (last[i].queue0 = <<>> /\ last[i].slice0 = <<>>)

\* Both kinds of pull have happened and the sequence has ended: a step
\* queued several instructions, later pulls popped them.
C6_Witness ==
  /\ last["lazy"].kind = "end"
  /\ Len(yielded["lazy"]) >= 4
  /\ log["lazy"].conds >= 1
  /\ Len(input) > 0

(***************************************************************************)
(* C7: parse() followed by draining gives the instructions, in the order   *)
(* and with the offsets, that pulling them one at a time from a fresh      *)
(* compiler on the same input gives, and parse() returns an error exactly  *)
(* when the pulls do (the same error).                                     *)
(***************************************************************************)
C7_BatchIsLazy ==
  parsed.kind # "none" =>
    /\ parsed.kind = "ok" <=> log["lazy"].first.kind = "end"
    /\ parsed.kind = "err" <=> log["lazy"].first.kind = "err"
    /\ parsed.kind = "err" => parsed.err = log["lazy"].first.err
    /\ parsed.kind \in {"ok", "err"} => parsed.queue = log["lazy"].first.all
    /\ (parsed.kind = "ok" /\ last["batch"].kind = "end")
         => /\ yielded["batch"] = log["lazy"].first.all
            /\ yielded["batch"] = SubSeq(yielded["lazy"], 1, log["lazy"].first.out)

\* parse() has compiled a conditional with an else behind two earlier
\* instructions, and the queue has been drained.
C7_Witness ==
  /\ parsed.kind = "ok"
  /\ last["batch"].kind = "end"
  /\ \E b \in log["batch"].br : b.at >= 3
  /\ log["batch"].jm # {}
  /\ Len(yielded["batch"]) >= 6
  /\ yielded["batch"][1].op \in {"PrintSlice", "PushUserArg"}
  /\ yielded["batch"][2].op \in {"PrintSlice", "PushUserArg"}

(***************************************************************************)
(* C8, as claimed: when the compilation step of a conditional returns an   *)
(* error the pull returns the error and no instruction of the conditional  *)
(* is handed out by that pull or by any later one; when the step succeeds  *)
(* the pull hands out the first instruction of the conditional with all    *)
(* the others queued.                                                      *)
(***************************************************************************)
CondStepDone(i) ==
  (last[i].stepped /\ StartsCond(last[i].slice0) /\ last[i].kind = "item")
    => /\ Len(yielded[i]) = last[i].out0 + 1
       /\ Len(Consumed(i)) >= 6
       /\ SubSeq(Consumed(i), Len(Consumed(i)) - 1, Len(Consumed(i))) = <<"%", ";">>
       /\ Marks(Consumed(i), "?") = Marks(Consumed(i), ";")
       /\ CountOps(All(i), "NoOp") = 0
       /\ CountOps(SubSeq(All(i), last[i].out0 + 1, Len(All(i))), "BranchFalse")
            = Marks(Consumed(i), "t")
       /\ CountOps(SubSeq(All(i), last[i].out0 + 1, Len(All(i))), "Jump")
            = Marks(Consumed(i), "e")

C8_AllOrNothingForEver ==
  /\ CondStepDone("lazy")
  /\ (log["lazy"].first.kind = "err" /\ log["lazy"].first.cond)
       => Len(yielded["lazy"]) = log["lazy"].first.out

(***************************************************************************)
(* C8, amended: when the compilation step of a conditional returns an      *)
(* error, that pull returns the error and hands out no instruction, and    *)
(* the instructions compiled before the error stay queued (a later pull,   *)
(* which the caller must not make, hands them out); when the step succeeds *)
(* the pull hands out the first instruction of the conditional with all    *)
(* the others queued.                                                      *)
(***************************************************************************)
C8_AllOrNothingInThePull ==
  /\ CondStepDone("lazy")
  /\ (last["lazy"].stepped /\ StartsCond(last["lazy"].slice0) /\ last["lazy"].kind = "err")
       => /\ Len(yielded["lazy"]) = last["lazy"].out0
          /\ All("lazy") = log["lazy"].first.all

\* A conditional with an else-if and an else has been compiled in one pull,
\* which handed out its first instruction and queued at least five more.
C8_Witness ==
  /\ last["lazy"].stepped /\ StartsCond(last["lazy"].slice0) /\ last["lazy"].kind = "item"
  /\ Len(buffer["lazy"]) >= 5
  /\ Marks(Consumed("lazy"), "e") >= 2

(***************************************************************************)
(* C9: while no call has returned an error (a pull or parse(); log.failed   *)
(* records one), the queue slots overwritten are exactly the placeholders  *)
(* pushed by the conditional compiler, each overwritten once, in the step  *)
(* that pushed it, with a branch-if-false or a jump that then stays at     *)
(* that index; no no-op is handed out.                                     *)
(***************************************************************************)
C9_Backpatching ==
  \A i \in Compilers :
    ~log[i].failed =>
      /\ { log[i].patches[k].idx : k \in DOMAIN log[i].patches } = log[i].holes
      /\ Len(log[i].patches) = Cardinality(log[i].holes)
      /\ \A k \in DOMAIN log[i].patches :
           /\ log[i].patches[k].old = NoOp
           /\ log[i].patches[k].new.op \in {"BranchFalse", "Jump"}
           /\ All(i)[log[i].patches[k].idx + 1] = log[i].patches[k].new
      /\ \A h \in log[i].holes : h < Len(All(i))
      /\ CountOps(All(i), "NoOp") = 0

\* Five placeholders have been pushed and overwritten in an error-free run.
C9_Witness ==
  /\ Clean("lazy")
  /\ Cardinality(log["lazy"].holes) >= 5
  /\ Len(yielded["lazy"]) >= 5

(***************************************************************************)
(* C10: a compilation step that starts on a non-empty input and succeeds   *)
(* moves the cursor forward by at least one byte and queues at least one   *)
(* instruction; parse() ends on every input, in success or in an error,    *)
(* after at most as many steps as the input has bytes; draining a          *)
(* well-formed input ends after at most as many instructions as the input  *)
(* has bytes.                                                              *)
(***************************************************************************)
C10_StepsAdvance ==
  /\ \A i \in Compilers :
       (last[i].stepped /\ last[i].slice0 # <<>> /\ last[i].kind \in {"item", "end"})
         => Len(slice[i]) < Len(last[i].slice0) /\ last[i].kind = "item"
  /\ parsed.kind # "none" => parsed.steps <= Len(input)
  /\ parsed.kind = "ok" => slice["batch"] = <<>> /\ parsed.steps <= Len(parsed.queue)
  /\ WellFormed => \A i \in Compilers :
       Clean(i) /\ Len(All(i)) <= Len(input) - Len(slice[i])

C10_ProgressAndTermination ==
  /\ C10_StepsAdvance
  /\ parsed.kind # "none" => parsed.kind \in {"ok", "err"}

====
